---------------------------- MODULE Spec2Model ----------------------------
(***************************************************************************)
(* A model of the game-side logic of the Fyrox tutorial projects: the     *)
(* input controllers (movement flags, yaw, pitch), the weapon cool-down   *)
(* and recoil, the message queue between the player and the game, the bot *)
(* pursuit and its animation machine, the platformer key-frame animation  *)
(* and the plugins' scene handles.                                        *)
(*                                                                         *)
(* Floating point values are kept in fixed point.  Each quantity has its  *)
(* own unit, named where the quantity is introduced; the arithmetic on it *)
(* is the arithmetic of the source with every product and sum exact.      *)
(***************************************************************************)
EXTENDS Integers, Sequences, FiniteSets

(***************************************************************************)
(* Projects of the repository.  One run of a program is one project; the  *)
(* project is fixed by Init.                                               *)
(***************************************************************************)
T1 == "tutorial1-character-controller"
T2 == "tutorial2-weapons"
T3 == "tutorial3-bots-ai"
RPG == "rpg-tutorial1-character-controller/src"
RPG_GAME == "rpg-tutorial1-character-controller/game"
PLATFORMER == "platformer/game"

Projects == {T1, T2, T3, RPG, RPG_GAME, PLATFORMER}

VARIABLES
    project,        \* which program runs
    controller,     \* InputController / Player input fields of the project
    pressed_last,   \* history: the keys the project listens to whose most
                    \* recent event was Pressed
    wanted,         \* history: yaw and pitch the last mouse motion asked for
    machine,        \* the rule parameters of the animation machine (RPG, T3 bot)
    machine_input,  \* history: the input of the last machine update, if any
    bot,            \* Bot: follow_target
    body,           \* the bot's rigid body: rotation, linear velocity, and
                    \* whether the last Bot::update wrote each of them
    bot_last,       \* history: what the last Bot::update saw, if any
    near_seen,      \* history: some Bot::update saw the target nearer than 1.5
    weapons,        \* Game::weapons, the pool of weapons by handle
    queue,          \* the messages sent and not yet received
    pc,             \* where Game::update stands, "idle" between two calls
    frame_dt,       \* the dt of the running Game::update
    since_shot,     \* history: per weapon, the dt of the updates since its last shot
    shot_gap,       \* history: per weapon, since_shot when its last shot was fired
    player,         \* platformer Player: current_animation, and whether the
                    \* script's node is a 2D rigid body
    animations,     \* platformer Player::animations
    panicked,       \* the program has panicked
    plugin_scene,   \* Game::scene of the plugin (RPG_GAME, PLATFORMER)
    scenes,         \* the engine's scene container: the handles alive
    next_scene,     \* the handle the container gives to the next scene added
    loaded,         \* history: the handles passed to on_scene_loaded
    last_callback,  \* history: the last plugin callback and its scene
    in_play,        \* history: entered play mode (or standalone) and not left
    left_last,      \* history: the most recent left mouse button event was Pressed
    player_weapon,  \* Player::weapon, the handle the ShootWeapon messages carry
    last_shot,      \* history: the shoot_weapon calls of the running Game::update
    sent,           \* history: messages sent during the running Game::update
    received,       \* history: messages received during the running Game::update
    clock,          \* the wall clock, clock.elapsed()
    elapsed_time,   \* main's elapsed_time
    loop_dt,        \* main's dt, inside the MainEventsCleared handler
    main_pc,        \* where the event loop stands, "wait" between two events
    game_updates,   \* history: the calls of game.update
    engine_updates, \* history: the calls of engine.update
    control_flow,   \* *control_flow of the event loop
    last_event      \* history: the event the handler last handled

inputVars == <<controller, pressed_last, wanted, left_last>>
rpgVars == <<machine, machine_input>>
botVars == <<bot, body, bot_last, near_seen>>
gameVars == <<weapons, queue, pc, frame_dt, since_shot, shot_gap,
              player_weapon, last_shot, sent, received>>
mainVars == <<clock, elapsed_time, loop_dt, main_pc, game_updates, engine_updates,
              control_flow, last_event>>
scriptVars == <<player, animations, panicked>>
pluginVars == <<plugin_scene, scenes, next_scene, loaded, last_callback, in_play>>

Abs(x) == IF x < 0 THEN -x ELSE x
Max(a, b) == IF a >= b THEN a ELSE b
Min(a, b) == IF a <= b THEN a ELSE b
\* f32::clamp(self, min, max)
Clamp(x, lo, hi) == IF x < lo THEN lo ELSE IF x > hi THEN hi ELSE x

(***************************************************************************)
(* Input events.                                                           *)
(***************************************************************************)
\* The keys some project binds, and the key codes of the keyboard events:
\* "NoKey" is an event whose virtual_keycode is None.
Keys == {"W", "S", "A", "D", "Space"}
KeyCodes == Keys \cup {"Escape", "NoKey"}
ElementStates == {"Pressed", "Released"}
MouseButtons == {"Left", "Right"}

\* Mouse deltas offered to the controllers, in pixels.
DeltaX == {-100, 0, 100}
DeltaY == {-1000, -150, 0, 150, 1000}
\* The yaw is unbounded in the source; the model stops following it here.
MaxYaw == 300
\* Frame lengths (in 1/60 s) the RPG script sees in ctx.dt.
DtTicks == {1, 2}

(***************************************************************************)
(* Units of the angles.  T1: 1 degree, one unit per pixel.  T2, T3: half a *)
(* degree (mouse_sens = 0.5), one unit per pixel.  RPG: 0.005 rad, three   *)
(* units per pixel (MOUSE_SENSITIVITY = 0.015).  RPG_GAME: 1/300 rad, one  *)
(* unit per pixel and per 1/60 s of ctx.dt (mouse_sens = 0.2 * ctx.dt).    *)
(* The limit of 90 degrees is 90, 180, 314 and 471 of these units.         *)
(***************************************************************************)
PitchLimitT1 == 90
PitchLimitT2 == 180
PitchLimitRpg == 314
PitchLimitRpgGame == 471
MouseSensRpg == 3

HasCamera(p) == p \in {T1, T2, T3, RPG, RPG_GAME}

PitchLimit(p) ==
    CASE p = T1 -> PitchLimitT1
      [] p \in {T2, T3} -> PitchLimitT2
      [] p = RPG -> PitchLimitRpg
      [] p = RPG_GAME -> PitchLimitRpgGame
      [] OTHER -> 0

\* The angle a motion of d pixels adds, in the project's unit.
MouseSens(p, d, ticks) ==
    CASE p = RPG -> d * MouseSensRpg
      [] p = RPG_GAME -> d * ticks
      [] OTHER -> d

\* yaw -= mouse_sens * delta.0
YawClamped(p, yaw, dx, ticks) == Clamp(yaw - MouseSens(p, dx, ticks), -PitchLimit(p), PitchLimit(p))
NewYaw(p, yaw, dx, ticks) == yaw - MouseSens(p, dx, ticks)

\* pitch = (pitch + mouse_sens * delta.1).clamp(-90, 90); the RPG camera
\* writes the same with .max(-90).min(90).
PitchUnclamped(p, pitch, dy, ticks) == pitch + MouseSens(p, dy, ticks)
NewPitch(p, pitch, dy, ticks) ==
    IF p = RPG
    THEN Min(Max(pitch + MouseSens(p, dy, ticks), -PitchLimit(p)), PitchLimit(p))
    ELSE Clamp(pitch + MouseSens(p, dy, ticks), -PitchLimit(p), PitchLimit(p))

\* The field a key is bound to in the project's key match, "none" for the
\* keys that fall in the `_ => ()` arm.
BindingShifted(p, key) ==
    IF p = PLATFORMER
    THEN CASE key = "A" -> "move_left"
           [] key = "D" -> "move_right"
           [] key = "Space" -> "jump"
           [] OTHER -> "none"
    ELSE CASE key = "W" -> "move_forward"
           [] key = "S" -> "move_backward"
           [] key = "A" -> "move_left"
           [] key = "D" -> "move_left"
           [] OTHER -> "none"
Binding(p, key) ==
    IF p = PLATFORMER
    THEN CASE key = "A" -> "move_left"
           [] key = "D" -> "move_right"
           [] key = "Space" -> "jump"
           [] OTHER -> "none"
    ELSE CASE key = "W" -> "move_forward"
           [] key = "S" -> "move_backward"
           [] key = "A" -> "move_left"
           [] key = "D" -> "move_right"
           [] OTHER -> "none"

\* The keys the key match of the project names.
ListenedKeys(p) == IF p = PLATFORMER THEN {"A", "D", "Space"} ELSE {"W", "S", "A", "D"}

InitController ==
    [move_forward |-> FALSE, move_backward |-> FALSE, move_left |-> FALSE,
     move_right |-> FALSE, jump |-> FALSE, shoot |-> FALSE, pitch |-> 0, yaw |-> 0]

\* The controller after a keyboard event.
OnKey(p, c, key, state) ==
    IF Binding(p, key) = "none"
    THEN c
    ELSE [c EXCEPT ![Binding(p, key)] = (state = "Pressed")]

\* The controller after a mouse motion.
OnMouseMotion(p, c, dx, dy, ticks) ==
    IF HasCamera(p)
    THEN [c EXCEPT !.yaw = NewYaw(p, c.yaw, dx, ticks),
                   !.pitch = NewPitch(p, c.pitch, dy, ticks)]
    ELSE c

\* The controller after a mouse button event (T2 and T3 only match it).
OnMouseInputAnyButton(p, c, button, state) ==
    IF p \in {T2, T3} THEN [c EXCEPT !.shoot = (state = "Pressed")] ELSE c
OnMouseInput(p, c, button, state) ==
    IF p \in {T2, T3} /\ button = "Left"
    THEN [c EXCEPT !.shoot = (state = "Pressed")]
    ELSE c

(***************************************************************************)
(* The input handlers, one action per kind of event.                       *)
(***************************************************************************)
KeyboardInput ==
    \E key \in KeyCodes, state \in ElementStates :
        /\ pc = "idle"
        /\ controller' = OnKey(project, controller, key, state)
        /\ pressed_last' = IF key \in ListenedKeys(project)
                           THEN IF state = "Pressed"
                                THEN pressed_last \cup {key}
                                ELSE pressed_last \ {key}
                           ELSE pressed_last
        /\ UNCHANGED <<project, mainVars, wanted, left_last, rpgVars, botVars, gameVars,
                       scriptVars, pluginVars>>

MouseMotion ==
    \E dx \in DeltaX, dy \in DeltaY, ticks \in DtTicks :
        /\ pc = "idle"
        /\ project = RPG_GAME \/ ticks = 1
        /\ Abs(NewYaw(project, controller.yaw, dx, ticks)) <= MaxYaw
        /\ controller' = OnMouseMotion(project, controller, dx, dy, ticks)
        /\ wanted' = IF HasCamera(project)
                     THEN [yaw |-> controller.yaw - MouseSens(project, dx, ticks),
                           pitch |-> controller.pitch + MouseSens(project, dy, ticks)]
                     ELSE wanted
        /\ UNCHANGED <<project, mainVars, pressed_last, left_last, rpgVars, botVars, gameVars,
                       scriptVars, pluginVars>>

MouseInput ==
    \E button \in MouseButtons, state \in ElementStates :
        /\ pc = "idle"
        /\ controller' = OnMouseInput(project, controller, button, state)
        /\ left_last' = IF button = "Left" THEN state = "Pressed" ELSE left_last
        /\ UNCHANGED <<project, mainVars, pressed_last, wanted, rpgVars, botVars, gameVars,
                       scriptVars, pluginVars>>

(***************************************************************************)
(* Animation machines.  Machine::set_parameter stores a value under a     *)
(* name; a parameter never set is "unset".                                 *)
(***************************************************************************)
IDLE_TO_WALK == "IdleToWalk"
WALK_TO_IDLE == "WalkToIdle"
WALK_TO_ATTACK == "WalkToAttack"
IDLE_TO_ATTACK == "IdleToAttack"
ATTACK_TO_IDLE == "AttackToIdle"
ATTACK_TO_WALK == "AttackToWalk"

BotParameters == {IDLE_TO_WALK, WALK_TO_IDLE, WALK_TO_ATTACK, IDLE_TO_ATTACK,
                  ATTACK_TO_IDLE, ATTACK_TO_WALK}

InitMachine == [n \in BotParameters |-> "unset"]

\* Parameter::Rule(value)
Rule(value) == IF value THEN "Rule(true)" ELSE "Rule(false)"

set_parameter(m, name, value) == [m EXCEPT ![name] = value]

\* AnimationMachine::update of the RPG player.
AnimationMachineUpdateStale(m, input) ==
    set_parameter(m, IDLE_TO_WALK, Rule(input.walk))
AnimationMachineUpdate(m, input) ==
    set_parameter(set_parameter(m, WALK_TO_IDLE, Rule(~input.walk)),
                  IDLE_TO_WALK, Rule(input.walk))

\* BotAnimationMachine::update.
BotAnimationMachineUpdate(m, input) ==
    set_parameter(
      set_parameter(
        set_parameter(
          set_parameter(
            set_parameter(
              set_parameter(m, WALK_TO_IDLE, Rule(~input.walk)),
              IDLE_TO_WALK, Rule(input.walk)),
            WALK_TO_ATTACK, Rule(input.attack)),
          IDLE_TO_ATTACK, Rule(input.attack)),
        ATTACK_TO_IDLE, Rule(~input.attack)),
      ATTACK_TO_WALK, Rule(~input.attack))

(***************************************************************************)
(* RPG Player::update.  The velocity is the sum of the look and side      *)
(* vectors of the pressed directions (both of length one, at right        *)
(* angles), scaled to 1.35 * dt: it is zero exactly when opposite keys    *)
(* cancel on both axes.                                                    *)
(***************************************************************************)
IsMoving(c) ==
    \/ c.move_left # c.move_right
    \/ c.move_forward # c.move_backward

RpgPlayerUpdate ==
    /\ project = RPG
    /\ LET input == [walk |-> IsMoving(controller)]
       IN /\ machine' = AnimationMachineUpdate(machine, input)
          /\ machine_input' = [updated |-> TRUE, walk |-> input.walk, attack |-> FALSE]
    /\ UNCHANGED <<project, mainVars, inputVars, botVars, gameVars, scriptVars, pluginVars>>

(***************************************************************************)
(* The bot of tutorial 3.  Positions are in units of 0.1, velocities in   *)
(* units of 0.01.  The vector from the bot to the target comes from the   *)
(* scene graph, which the physics engine moves: Bot::update takes it from *)
(* Directions, vectors whose length is a whole number of units.           *)
(***************************************************************************)
Directions == {<<0, 0, 0>>, <<3, 0, 4>>, <<0, 0, 6>>, <<4, 7, 4>>,
               <<6, 0, 8>>, <<9, 0, 12>>, <<12, 0, 16>>}
MaxNorm == 64
\* Vertical velocities the physics engine leaves in the body.
FallSpeeds == {0, -50}

NormSquared(d) == d[1] * d[1] + d[2] * d[2] + d[3] * d[3]
\* direction.norm(), for the vectors of Directions
Norm(d) == CHOOSE n \in 0..MaxNorm : n * n = NormSquared(d)

RECURSIVE Gcd(_, _)
Gcd(a, b) == IF b = 0 THEN a ELSE Gcd(b, a % b)

\* UnitQuaternion::face_towards(&Vector3::new(x, 0, z), up): the rotation
\* is given by the direction of (x, z) alone.  (No vector of Directions
\* other than zero has x = z = 0, where the source has no direction to face.)
FaceTowards(x, z) ==
    LET g == Gcd(Abs(x), Abs(z))
    IN IF g = 0 THEN <<0, 0>> ELSE <<x \div g, z \div g>>

AttackDistance == 6
FollowDistance == 15
BotSpeed == 90

InitBot == [follow_target |-> FALSE]
\* The rotation of a body that was never turned.
Unrotated == <<0, 0>>
InitBody == [rotation |-> Unrotated, linvel |-> [x |-> 0, y |-> 0, z |-> 0],
             wrote_rotation |-> FALSE, wrote_linvel |-> FALSE]

\* if distance != 0.0 && distance < 1.5 { self.follow_target = true; }
FollowTargetLoose(follow, direction) ==
    IF Norm(direction) < FollowDistance THEN TRUE ELSE follow
FollowTarget(follow, direction) ==
    IF Norm(direction) # 0 /\ Norm(direction) < FollowDistance THEN TRUE ELSE follow

\* rigid_body.set_position(position, true), with position.rotation replaced
set_rotation(b, rotation) == [b EXCEPT !.rotation = rotation, !.wrote_rotation = TRUE]
\* rigid_body.set_linvel(new_velocity, true)
set_linvel(b, v) == [b EXCEPT !.linvel = v, !.wrote_linvel = TRUE]

\* The body after the `if self.follow_target && distance != 0.0` block of
\* one Bot::update.
BotBodyStops(b, follow, direction) ==
    LET distance == Norm(direction)
        before == [b EXCEPT !.wrote_rotation = FALSE, !.wrote_linvel = FALSE]
        turned == set_rotation(before, FaceTowards(direction[1], direction[3]))
    IN IF follow /\ distance # 0
       THEN IF distance > AttackDistance
            THEN set_linvel(turned,
                     [x |-> (direction[1] * BotSpeed) \div distance,
                      y |-> b.linvel.y,
                      z |-> (direction[3] * BotSpeed) \div distance])
            ELSE set_linvel(turned, [x |-> 0, y |-> b.linvel.y, z |-> 0])
       ELSE before
BotBody(b, follow, direction) ==
    LET distance == Norm(direction)
        before == [b EXCEPT !.wrote_rotation = FALSE, !.wrote_linvel = FALSE]
        turned == set_rotation(before, FaceTowards(direction[1], direction[3]))
    IN IF follow /\ distance # 0
       THEN IF distance > AttackDistance
            THEN set_linvel(turned,
                     [x |-> (direction[1] * BotSpeed) \div distance,
                      y |-> b.linvel.y,
                      z |-> (direction[3] * BotSpeed) \div distance])
            ELSE turned
       ELSE before

BotMachineInput(follow, direction) ==
    [walk |-> follow /\ Norm(direction) > AttackDistance,
     attack |-> Norm(direction) < AttackDistance]

\* Bot::update(scene, dt, target), with direction = target - self_position.
BotUpdateWith(direction) ==
    LET follow == FollowTarget(bot.follow_target, direction)
        distance == Norm(direction)
        input == BotMachineInput(follow, direction)
    IN /\ bot' = [bot EXCEPT !.follow_target = follow]
       /\ body' = BotBody(body, follow, direction)
       /\ machine' = BotAnimationMachineUpdate(machine, input)
       /\ machine_input' = [updated |-> TRUE, walk |-> input.walk, attack |-> input.attack]
       /\ bot_last' = [updated |-> TRUE, direction |-> direction,
                       linvel_before |-> body.linvel]
       /\ near_seen' = (near_seen \/ (distance # 0 /\ distance < FollowDistance))

BotUpdate ==
    /\ project = T3
    /\ \E direction \in Directions : BotUpdateWith(direction)
    /\ UNCHANGED <<project, mainVars, inputVars, gameVars, scriptVars, pluginVars>>

\* The physics engine integrates the body between two updates.
PhysicsStep ==
    /\ project = T3
    /\ \E vy \in FallSpeeds : body' = [body EXCEPT !.linvel.y = vy]
    /\ body' # body
    /\ UNCHANGED <<project, mainVars, inputVars, rpgVars, bot, bot_last, near_seen, gameVars, scriptVars, pluginVars>>

(***************************************************************************)
(* The weapon of tutorials 2 and 3.  Times are in units of 1/600 s, the   *)
(* recoil offsets in units of 0.0005 along z (shoot() sets no other       *)
(* component, and the offset starts at zero).                              *)
(***************************************************************************)
TIMESTEP == 10
ShotInterval == 60
RecoilKick == -50
RecoilEpsilon == 2
\* The history of update time since a shot is followed up to here.
MaxSince == 70

\* The dt values Game::update is given: main passes TIMESTEP; a longer
\* frame is offered too.
FrameDts == {TIMESTEP, 25}

WeaponHandles == {1}
\* Player::new leaves player.weapon unassigned: Handle::NONE
UnassignedWeapon == 0
\* player.weapon, assigned by Game::new from weapons.spawn
PlayerWeapon == 1

InitWeapon == [shot_timer |-> 0, recoil_offset |-> 0, recoil_target_offset |-> 0]

\* x * 0.5, rounded towards zero
Half(x) == IF x >= 0 THEN x \div 2 ELSE -((-x) \div 2)

\* Vector3Ext::follow(&mut self, other, fraction = 0.5)
follow(value, target) == value + Half(target - value)

\* Weapon::can_shoot
can_shoot_always(w) == TRUE
can_shoot(w) == w.shot_timer <= 0

\* Weapon::shoot
shoot(w) == [w EXCEPT !.shot_timer = ShotInterval, !.recoil_target_offset = RecoilKick]

\* Weapon::update
WeaponUpdateNoReset(w, dt) ==
    [w EXCEPT !.shot_timer = Max(w.shot_timer - dt, 0),
              !.recoil_offset = follow(w.recoil_offset, w.recoil_target_offset)]
WeaponUpdate(w, dt) ==
    LET offset == follow(w.recoil_offset, w.recoil_target_offset)
    IN [w EXCEPT !.shot_timer = Max(w.shot_timer - dt, 0),
                 !.recoil_offset = offset,
                 !.recoil_target_offset =
                     IF Abs(offset - w.recoil_target_offset) < RecoilEpsilon
                     THEN 0
                     ELSE w.recoil_target_offset]

(***************************************************************************)
(* Game::update of tutorials 2 and 3, statement by statement: the player  *)
(* update, the weapons' update, the bots' update (T3) and the try_recv    *)
(* loop.  The event loop is single threaded: no input handler runs while  *)
(* pc is not "idle".                                                       *)
(***************************************************************************)
MaxQueue == 2

\* Where the bots of the running game are seen relative to the player.
GameDirections == {<<4, 7, 4>>, <<12, 0, 16>>}

(***************************************************************************)
(* The ray cast of a shot.  An intersection is a collider and its distance *)
(* from the ray origin; cast_ray with sort_results gives the intersections *)
(* closest first.  The ray is look_vector().scale(1000).                   *)
(***************************************************************************)
RayLength == 1000
PlayerCollider == "player"
Colliders == {PlayerCollider, "wall", "crate"}

\* What cast_ray can return here: nothing, the player's capsule alone, the
\* capsule in front of other colliders or between them.
RayCasts ==
    {<<>>,
     <<[collider |-> PlayerCollider, toi |-> 0]>>,
     <<[collider |-> PlayerCollider, toi |-> 0], [collider |-> "crate", toi |-> 12],
       [collider |-> "wall", toi |-> 30]>>,
     <<[collider |-> "wall", toi |-> 30], [collider |-> PlayerCollider, toi |-> 40],
       [collider |-> "crate", toi |-> 50]>>}

\* intersections.iter().find(|i| i.collider != collider): the index of the
\* first intersection with another collider, 0 for None.
RECURSIVE FindFrom(_, _, _)
FindFrom(intersections, collider, i) ==
    IF i > Len(intersections)
    THEN 0
    ELSE IF intersections[i].collider # collider
         THEN i
         ELSE FindFrom(intersections, collider, i + 1)
FindFirst(intersections, collider) == IF intersections = <<>> THEN 0 ELSE 1
FindOther(intersections, collider) == FindFrom(intersections, collider, 1)

\* What a call of shoot_weapon did to the scene: whether the ray was cast,
\* the intersection acted on (0 for none), where the force and the impact
\* effect were applied (-1 for nowhere), and the nodes added.
NoShot ==
    [called |-> FALSE, fired |-> FALSE, ray_cast |-> FALSE, intersections |-> <<>>,
     target |-> 0, force_at |-> -1, effect_at |-> -1, trail_length |-> -1,
     trails |-> 0, effects |-> 0]

\* The branch of shoot_weapon under `if weapon.can_shoot()`.
ShotEffects(intersections, collider) ==
    LET i == FindOther(intersections, collider)
    IN IF i # 0
       THEN [called |-> TRUE, fired |-> TRUE, ray_cast |-> TRUE,
             intersections |-> intersections, target |-> i,
             force_at |-> intersections[i].toi, effect_at |-> intersections[i].toi,
             trail_length |-> intersections[i].toi, trails |-> 1, effects |-> 1]
       ELSE [called |-> TRUE, fired |-> TRUE, ray_cast |-> TRUE,
             intersections |-> intersections, target |-> 0,
             force_at |-> -1, effect_at |-> -1,
             trail_length |-> RayLength, trails |-> 1, effects |-> 0]

\* shoot_weapon when can_shoot() is false: the body of the `if` is skipped.
ShotDropped == [NoShot EXCEPT !.called = TRUE]

\* The first statements of Game::update(engine, dt).
GameUpdateBegin(dt) ==
    /\ pc = "idle"
    /\ ~panicked
    /\ frame_dt' = dt
    /\ pc' = "player"
    /\ last_shot' = NoShot
    /\ sent' = 0
    /\ received' = 0
    /\ UNCHANGED <<weapons, queue, since_shot, shot_gap, player_weapon>>

GameUpdateStart ==
    /\ project \in {T2, T3}
    /\ \E dt \in FrameDts : GameUpdateBegin(dt)
    /\ UNCHANGED <<project, mainVars, inputVars, rpgVars, botVars, scriptVars, pluginVars>>

\* Player::update: the ShootWeapon message is sent when the shoot flag is set.
PlayerSendsAlways(c) == TRUE
PlayerSends(c) == c.shoot
PlayerUpdate ==
    /\ pc = "player"
    /\ Len(queue) < MaxQueue
    /\ queue' = IF PlayerSends(controller)
                THEN Append(queue, [weapon |-> player_weapon])
                ELSE queue
    /\ sent' = IF PlayerSends(controller) THEN sent + 1 ELSE sent
    /\ pc' = "weapons"
    /\ UNCHANGED <<project, mainVars, inputVars, rpgVars, botVars, weapons, frame_dt,
                   since_shot, shot_gap, player_weapon, last_shot, received,
                   scriptVars, pluginVars>>

\* for weapon in self.weapons.iter_mut() { weapon.update(dt, ..) }
WeaponsUpdate ==
    /\ pc = "weapons"
    /\ weapons' = [h \in DOMAIN weapons |-> WeaponUpdate(weapons[h], frame_dt)]
    /\ since_shot' = [h \in WeaponHandles |->
                         IF since_shot[h] < 0
                         THEN since_shot[h]
                         ELSE Min(since_shot[h] + frame_dt, MaxSince)]
    /\ pc' = IF project = T3 THEN "bots" ELSE "recv"
    /\ UNCHANGED <<project, mainVars, inputVars, rpgVars, botVars, queue, frame_dt, shot_gap,
                   player_weapon, last_shot, sent, received, scriptVars, pluginVars>>

\* for bot in self.bots.iter_mut() { bot.update(scene, dt, target) }
BotsUpdate ==
    /\ pc = "bots"
    /\ \E direction \in GameDirections : BotUpdateWith(direction)
    /\ pc' = "recv"
    /\ UNCHANGED <<project, mainVars, inputVars, weapons, queue, frame_dt, since_shot, shot_gap,
                   player_weapon, last_shot, sent, received, scriptVars, pluginVars>>

\* Game::shoot_weapon, on the weapon pool
shoot_weapon_always(ws, h) == [ws EXCEPT ![h] = shoot(ws[h])]
shoot_weapon(ws, h) ==
    IF can_shoot(ws[h]) THEN [ws EXCEPT ![h] = shoot(ws[h])] ELSE ws

\* Ok(message) = self.receiver.try_recv(): the message is handled.  The
\* index self.weapons[weapon] panics on a handle the pool does not hold.
RecvMessage ==
    /\ pc = "recv"
    /\ ~panicked
    /\ queue # <<>>
    /\ queue' = Tail(queue)
    /\ received' = received + 1
    /\ LET h == Head(queue).weapon
       IN IF h \notin DOMAIN weapons
          THEN /\ panicked' = TRUE
               /\ UNCHANGED <<weapons, since_shot, shot_gap, last_shot>>
          ELSE LET fired == can_shoot(weapons[h])
               IN /\ weapons' = shoot_weapon(weapons, h)
                  /\ since_shot' = IF fired THEN [since_shot EXCEPT ![h] = 0]
                                            ELSE since_shot
                  /\ shot_gap' = IF fired THEN [shot_gap EXCEPT ![h] = since_shot[h]]
                                          ELSE shot_gap
                  /\ \E intersections \in RayCasts :
                        last_shot' = IF fired
                                     THEN ShotEffects(intersections, PlayerCollider)
                                     ELSE ShotDropped
                  /\ UNCHANGED panicked
    /\ UNCHANGED <<project, mainVars, inputVars, rpgVars, botVars, pc, frame_dt,
                   player_weapon, sent, player, animations, pluginVars>>

\* try_recv() finds the queue empty: Game::update returns.
GameUpdateReturn ==
    /\ pc = "recv"
    /\ ~panicked
    /\ queue = <<>>
    /\ pc' = "idle"
    /\ UNCHANGED <<project, mainVars, inputVars, rpgVars, botVars, weapons, queue, frame_dt,
                   since_shot, shot_gap, player_weapon, last_shot, sent, received,
                   scriptVars, pluginVars>>

GameUpdateStep ==
    \/ GameUpdateStart
    \/ PlayerUpdate
    \/ WeaponsUpdate
    \/ BotsUpdate
    \/ RecvMessage
    \/ GameUpdateReturn

(***************************************************************************)
(* The platformer's Player script and its key-frame animations.  An       *)
(* animation is the number of its key frames, current_frame, speed and t; *)
(* t is in units of 1/60, so that speed * dt adds speed units per 1/60 s  *)
(* of dt and the frame advances at 60 units.                               *)
(***************************************************************************)
MaxKeyframes == 2
AnimationSpeeds == {10, 30}
FrameThreshold == 60

\* The animations the editor can leave in the script: any frame index and
\* any number of key frames, zero included.
AnimationStates ==
    [keyframes : 0..MaxKeyframes, current_frame : 0..MaxKeyframes,
     speed : AnimationSpeeds, t : {0}]
AnimationLists ==
    {<<>>} \cup {<<a>> : a \in AnimationStates}
           \cup {<<a, b>> : a \in AnimationStates, b \in AnimationStates}

\* impl Default for Animation
DefaultAnimation == [keyframes |-> 0, current_frame |-> 0, speed |-> 10, t |-> 0]

\* Animation::update divides by keyframes.len(): with no key frame the
\* remainder panics.
AnimationUpdatePanics(a, ticks) ==
    a.t + a.speed * ticks >= FrameThreshold /\ a.keyframes = 0

\* Animation::update, where it does not panic
AnimationUpdateNoWrap(a, ticks) ==
    IF a.t + a.speed * ticks >= FrameThreshold
    THEN [a EXCEPT !.t = 0, !.current_frame = a.current_frame + 1]
    ELSE [a EXCEPT !.t = a.t + a.speed * ticks]
AnimationUpdate(a, ticks) ==
    IF a.t + a.speed * ticks >= FrameThreshold
    THEN [a EXCEPT !.t = 0, !.current_frame = (a.current_frame + 1) % a.keyframes]
    ELSE [a EXCEPT !.t = a.t + a.speed * ticks]

\* Animation::current_frame: whether keyframes.get(current_frame) is Some
HasCurrentFrame(a) == a.current_frame < a.keyframes

\* x_speed of Player::on_update
XSpeed(c) == IF c.move_left THEN 3 ELSE IF c.move_right THEN -3 ELSE 0

\* Player::on_update of the platformer
PlayerOnUpdate ==
    /\ project = PLATFORMER
    /\ pc = "idle"
    /\ ~panicked
    /\ \E ticks \in DtTicks :
          LET current == IF player.node_is_rigid_body
                         THEN IF XSpeed(controller) # 0 THEN 0 ELSE 1
                         ELSE player.current_animation
              i == current + 1
          IN /\ player' = [player EXCEPT !.current_animation = current]
             /\ IF i \in DOMAIN animations
                THEN IF AnimationUpdatePanics(animations[i], ticks)
                     THEN /\ panicked' = TRUE
                          /\ UNCHANGED animations
                     ELSE /\ animations' = [animations EXCEPT
                                               ![i] = AnimationUpdate(animations[i], ticks)]
                          /\ UNCHANGED panicked
                ELSE UNCHANGED <<animations, panicked>>
    /\ UNCHANGED <<project, mainVars, inputVars, rpgVars, botVars, gameVars, pluginVars>>

(***************************************************************************)
(* The plugins.  A scene handle is a number, NONE is 0; the engine's      *)
(* container gives every scene added a handle never given before.         *)
(***************************************************************************)
NONE == 0
MaxScenes == 3

\* context.scenes after RPG_GAME's on_scene_loaded(scene)
ScenesAfterLoadKeep(container, old, scene) == container \cup {scene}
ScenesAfterLoad(container, old, scene) ==
    IF old # NONE THEN (container \ {old}) \cup {scene} ELSE container \cup {scene}

\* The engine has loaded a scene and put it in the container: on_scene_loaded.
OnSceneLoaded ==
    /\ project = RPG_GAME
    /\ pc = "idle"
    /\ next_scene <= MaxScenes
    /\ scenes' = ScenesAfterLoad(scenes, plugin_scene, next_scene)
    /\ plugin_scene' = next_scene
    /\ next_scene' = next_scene + 1
    /\ loaded' = Append(loaded, next_scene)
    /\ last_callback' = [name |-> "on_scene_loaded", scene |-> next_scene]
    /\ UNCHANGED <<project, mainVars, inputVars, rpgVars, botVars, gameVars, scriptVars, in_play>>

\* Game::set_scene of the platformer
set_scene_keep(current, scene) == IF scene = NONE THEN current ELSE scene
set_scene(current, scene) == scene

OnRegister ==
    /\ project = PLATFORMER
    /\ last_callback' = [name |-> "on_register", scene |-> NONE]
    /\ UNCHANGED <<project, mainVars, inputVars, rpgVars, botVars, gameVars, scriptVars,
                   plugin_scene, scenes, next_scene, loaded, in_play>>

\* on_standalone_init: the scene file is loaded and added to the container.
OnStandaloneInit ==
    /\ project = PLATFORMER
    /\ next_scene <= MaxScenes
    /\ scenes' = scenes \cup {next_scene}
    /\ next_scene' = next_scene + 1
    /\ plugin_scene' = set_scene(plugin_scene, next_scene)
    /\ last_callback' = [name |-> "on_standalone_init", scene |-> next_scene]
    /\ in_play' = TRUE
    /\ UNCHANGED <<project, mainVars, inputVars, rpgVars, botVars, gameVars, scriptVars, loaded>>

\* on_enter_play_mode(scene): the editor hands over a scene of the container.
OnEnterPlayMode ==
    /\ project = PLATFORMER
    /\ \E scene \in 1..MaxScenes :
          /\ scenes' = scenes \cup {scene}
          /\ plugin_scene' = set_scene(plugin_scene, scene)
          /\ last_callback' = [name |-> "on_enter_play_mode", scene |-> scene]
    /\ next_scene' = next_scene
    /\ in_play' = TRUE
    /\ UNCHANGED <<project, mainVars, inputVars, rpgVars, botVars, gameVars, scriptVars, loaded>>

OnLeavePlayMode ==
    /\ project = PLATFORMER
    /\ plugin_scene' = set_scene(plugin_scene, NONE)
    /\ last_callback' = [name |-> "on_leave_play_mode", scene |-> NONE]
    /\ in_play' = FALSE
    /\ UNCHANGED <<project, mainVars, inputVars, rpgVars, botVars, gameVars, scriptVars,
                   scenes, next_scene, loaded>>

\* Plugin::update, Plugin::on_os_event and Plugin::on_unload have empty bodies.
PluginUpdate ==
    /\ project = PLATFORMER
    /\ last_callback' = [name |-> "update", scene |-> NONE]
    /\ UNCHANGED <<project, mainVars, inputVars, rpgVars, botVars, gameVars, scriptVars,
                   plugin_scene, scenes, next_scene, loaded, in_play>>

PluginOnOsEvent ==
    /\ project = PLATFORMER
    /\ last_callback' = [name |-> "on_os_event", scene |-> NONE]
    /\ UNCHANGED <<project, mainVars, inputVars, rpgVars, botVars, gameVars, scriptVars,
                   plugin_scene, scenes, next_scene, loaded, in_play>>

OnUnload ==
    /\ project = PLATFORMER
    /\ last_callback' = [name |-> "on_unload", scene |-> NONE]
    /\ UNCHANGED <<project, mainVars, inputVars, rpgVars, botVars, gameVars, scriptVars,
                   plugin_scene, scenes, next_scene, loaded, in_play>>

(***************************************************************************)
(* The event loop of tutorials 1, 2 and 3: the closure given to            *)
(* event_loop.run, called with one event at a time.  The clock and         *)
(* elapsed_time are in units of 1/600 s, like TIMESTEP.  winit stops       *)
(* calling the closure once it has set ControlFlow::Exit.                  *)
(***************************************************************************)
MaxClock == 35
\* How far the wall clock moves between two looks at it.
ClockSteps == {4, 25}

MainKeys == {"W", "Escape"}

\* An event, with the fields the handlers read; the fields of other kinds
\* of event hold these defaults.
Event(kind) ==
    [kind |-> kind, key |-> "NoKey", state |-> "Released", button |-> "Right",
     dx |-> 0, dy |-> 0]
KeyboardEvents ==
    {[Event("KeyboardInput") EXCEPT !.key = k, !.state = st] :
        k \in MainKeys, st \in ElementStates}
\* WindowEvent::MouseInput: the loop has no arm for it
MouseInputEvents ==
    {[Event("MouseInput") EXCEPT !.button = "Left", !.state = st] : st \in ElementStates}
\* DeviceEvent::MouseMotion
DeviceEvents == {[Event("MouseMotion") EXCEPT !.dy = 1000]}

\* last_event: the event, whether it went to process_input_event, and for
\* MainEventsCleared the clock when the handler was entered.
NoEvent == [forwarded |-> FALSE, clock |-> 0, event |-> Event("none")]

\* Player::process_input_event(&event)
ProcessInputEvent(p, c, e) ==
    CASE e.kind = "KeyboardInput" -> OnKey(p, c, e.key, e.state)
      [] e.kind = "MouseInput" -> OnMouseInput(p, c, e.button, e.state)
      [] e.kind = "MouseMotion" -> OnMouseMotion(p, c, e.dx, e.dy, 1)
      [] OTHER -> c

\* *control_flow after the `match event` of the closure
ControlFlowEscapePressed(cf, e) ==
    CASE e.kind = "CloseRequested" -> "Exit"
      [] e.kind = "KeyboardInput" /\ e.key = "Escape" /\ e.state = "Pressed" -> "Exit"
      [] e.kind \in {"MainEventsCleared", "RedrawRequested", "KeyboardInput",
                     "MouseInput", "Resized"} -> cf
      [] OTHER -> "Poll"
ControlFlowAfter(cf, e) ==
    CASE e.kind = "CloseRequested" -> "Exit"
      [] e.kind = "KeyboardInput" /\ e.key = "Escape" -> "Exit"
      [] e.kind \in {"MainEventsCleared", "RedrawRequested", "KeyboardInput",
                     "MouseInput", "Resized"} -> cf
      [] OTHER -> "Poll"

\* Whether the closure passes the event to process_input_event
Forwarded(e) == TRUE

\* The closure up to its `match event`, for any event: the event goes to
\* process_input_event first.
Forward(e) ==
    /\ main_pc = "wait"
    /\ pc = "idle"
    /\ control_flow # "Exit"
    /\ controller' = IF Forwarded(e)
                     THEN ProcessInputEvent(project, controller, e)
                     ELSE controller
    /\ pressed_last' = IF e.kind = "KeyboardInput" /\ e.key \in ListenedKeys(project)
                       THEN IF e.state = "Pressed"
                            THEN pressed_last \cup {e.key}
                            ELSE pressed_last \ {e.key}
                       ELSE pressed_last
    /\ wanted' = IF e.kind = "MouseMotion"
                 THEN [yaw |-> controller.yaw - MouseSens(project, e.dx, 1),
                       pitch |-> controller.pitch + MouseSens(project, e.dy, 1)]
                 ELSE wanted
    /\ left_last' = IF e.kind = "MouseInput" /\ e.button = "Left"
                    THEN e.state = "Pressed"
                    ELSE left_last
    /\ last_event' = [forwarded |-> Forwarded(e),
                      clock |-> IF e.kind = "MainEventsCleared" THEN clock ELSE 0,
                      event |-> e]

\* An event whose arm of the match has no loop: the whole closure.
Handle(e) ==
    /\ Forward(e)
    /\ control_flow' = ControlFlowAfter(control_flow, e)
    /\ UNCHANGED <<project, clock, elapsed_time, loop_dt, main_pc, game_updates,
                   engine_updates, rpgVars, botVars, gameVars, scriptVars, pluginVars>>

MainCloseRequested == Handle(Event("CloseRequested"))
MainKeyboardInput == \E e \in KeyboardEvents : Handle(e)
MainMouseInput == \E e \in MouseInputEvents : Handle(e)
\* WindowEvent::Resized: the renderer is told the new size
MainResized == Handle(Event("Resized"))
MainDeviceEvent == \E e \in DeviceEvents : Handle(e)
\* Event::RedrawRequested: engine.render()
MainRedrawRequested == Handle(Event("RedrawRequested"))

\* Event::MainEventsCleared, up to the loop:
\* let mut dt = clock.elapsed().as_secs_f32() - elapsed_time;
MainEventsCleared ==
    /\ Forward(Event("MainEventsCleared"))
    /\ loop_dt' = clock - elapsed_time
    /\ main_pc' = "loop"
    /\ UNCHANGED <<project, clock, elapsed_time, game_updates, engine_updates,
                   control_flow, rpgVars, botVars, gameVars, scriptVars, pluginVars>>

\* while dt >= TIMESTEP
LoopConditionAny(dt) == dt > 0
LoopCondition(dt) == dt >= TIMESTEP

\* One turn of the loop up to the call of game.update, which Game::update
\* of tutorials 2 and 3 then runs statement by statement; Game::update of
\* tutorial 1 is Player::update alone and is done here.
LoopIter ==
    /\ main_pc = "loop"
    /\ LoopCondition(loop_dt)
    /\ loop_dt' = loop_dt - TIMESTEP
    /\ elapsed_time' = elapsed_time + TIMESTEP
    /\ game_updates' = game_updates + 1
    /\ main_pc' = "game"
    /\ IF project = T1
       THEN UNCHANGED gameVars
       ELSE GameUpdateBegin(TIMESTEP)
    /\ UNCHANGED <<project, clock, engine_updates, control_flow, last_event,
                   inputVars, rpgVars, botVars, scriptVars, pluginVars>>

\* engine.update(TIMESTEP), once game.update has returned.  Tutorial 2 hands
\* control_flow to the engine, which with no plugin registered leaves it.
EngineUpdate ==
    /\ main_pc = "game"
    /\ pc = "idle"
    /\ engine_updates' = engine_updates + 1
    /\ main_pc' = "loop"
    /\ UNCHANGED <<project, clock, elapsed_time, loop_dt, game_updates, control_flow,
                   last_event, inputVars, rpgVars, botVars, gameVars, scriptVars,
                   pluginVars>>

\* The loop is left: engine.get_window().request_redraw()
LoopExit ==
    /\ main_pc = "loop"
    /\ ~LoopCondition(loop_dt)
    /\ main_pc' = "wait"
    /\ UNCHANGED <<project, clock, elapsed_time, loop_dt, game_updates, engine_updates,
                   control_flow, last_event, inputVars, rpgVars, botVars, gameVars,
                   scriptVars, pluginVars>>

\* Time passes.
ClockTick ==
    /\ \E d \in ClockSteps : clock' = clock + d
    /\ clock' <= MaxClock
    /\ pc = "idle"
    /\ control_flow # "Exit"
    /\ UNCHANGED <<project, elapsed_time, loop_dt, main_pc, game_updates, engine_updates,
                   control_flow, last_event, inputVars, rpgVars, botVars, gameVars,
                   scriptVars, pluginVars>>

\* The steps of the MainEventsCleared handler after its first statement.
MainLoopStep ==
    \/ LoopIter
    \/ PlayerUpdate
    \/ WeaponsUpdate
    \/ BotsUpdate
    \/ RecvMessage
    \/ GameUpdateReturn
    \/ EngineUpdate
    \/ LoopExit

vars == <<project, controller, pressed_last, wanted, machine, machine_input,
          bot, body, bot_last, near_seen,
          weapons, queue, pc, frame_dt, since_shot, shot_gap,
          player, animations, panicked,
          plugin_scene, scenes, next_scene, loaded, last_callback, in_play,
          left_last, player_weapon, last_shot, sent, received,
          clock, elapsed_time, loop_dt, main_pc, game_updates, engine_updates,
          control_flow, last_event>>

InitCommon ==
    /\ controller = InitController
    /\ pressed_last = {}
    /\ wanted = [yaw |-> 0, pitch |-> 0]
    /\ machine = InitMachine
    /\ machine_input = [updated |-> FALSE, walk |-> FALSE, attack |-> FALSE]
    /\ bot = InitBot
    /\ body = InitBody
    /\ bot_last = [updated |-> FALSE, direction |-> <<0, 0, 0>>,
                   linvel_before |-> InitBody.linvel]
    /\ near_seen = FALSE
    /\ weapons = [h \in WeaponHandles |-> InitWeapon]
    /\ queue = <<>>
    /\ pc = "idle"
    /\ frame_dt = 0
    /\ since_shot = [h \in WeaponHandles |-> -1]
    /\ shot_gap = [h \in WeaponHandles |-> -1]
    /\ panicked = FALSE
    /\ plugin_scene = NONE
    /\ scenes = {}
    /\ next_scene = 1
    /\ loaded = <<>>
    /\ last_callback = [name |-> "none", scene |-> NONE]
    /\ in_play = FALSE
    /\ left_last = FALSE
    /\ player_weapon = PlayerWeapon
    /\ last_shot = NoShot
    /\ sent = 0
    /\ received = 0
    /\ clock = 0
    /\ elapsed_time = 0
    /\ loop_dt = 0
    /\ main_pc = "wait"
    /\ game_updates = 0
    /\ engine_updates = 0
    /\ control_flow = "Poll"
    /\ last_event = NoEvent

\* impl Default for Player (platformer), with no animation
InitPlayer == [current_animation |-> 0, node_is_rigid_body |-> TRUE]
InitNoScript ==
    /\ player = InitPlayer
    /\ animations = <<>>

(***************************************************************************)
(* The input handlers of every project.                                    *)
(***************************************************************************)
InitInput ==
    /\ project \in Projects
    /\ InitCommon
    /\ InitNoScript

NextInput ==
    \/ KeyboardInput
    \/ MouseMotion
    \/ MouseInput

SpecInput == InitInput /\ [][NextInput]_vars

(***************************************************************************)
(* The characters driven by an animation machine: the RPG player and the  *)
(* bot.                                                                    *)
(***************************************************************************)
InitActors ==
    /\ project \in {RPG, T3}
    /\ InitCommon
    /\ InitNoScript

RpgKeyboardInput == project = RPG /\ KeyboardInput

NextActors ==
    \/ RpgKeyboardInput
    \/ RpgPlayerUpdate
    \/ BotUpdate
    \/ PhysicsStep

SpecActors == InitActors /\ [][NextActors]_vars

(***************************************************************************)
(* The game of tutorials 2 and 3: the mouse button and Game::update.  The *)
(* main loop calls Game::update again and again as the clock advances,    *)
(* which SpecGameFair states.                                              *)
(***************************************************************************)
InitGame ==
    /\ project \in {T2, T3}
    /\ InitCommon
    /\ InitNoScript

NextGame ==
    \/ MouseInput
    \/ GameUpdateStart
    \/ PlayerUpdate
    \/ WeaponsUpdate
    \/ BotsUpdate
    \/ RecvMessage
    \/ GameUpdateReturn

SpecGame == InitGame /\ [][NextGame]_vars

SpecGameFair == SpecGame /\ WF_vars(GameUpdateStep)

(***************************************************************************)
(* The platformer's Player script: the scene file gives the script its    *)
(* animations and tells whether its node is a rigid body.                  *)
(***************************************************************************)
InitAnimation ==
    /\ project = PLATFORMER
    /\ InitCommon
    /\ player \in [current_animation : {0}, node_is_rigid_body : BOOLEAN]
    /\ animations \in AnimationLists

NextAnimation ==
    \/ KeyboardInput
    \/ PlayerOnUpdate

SpecAnimation == InitAnimation /\ [][NextAnimation]_vars

(***************************************************************************)
(* The plugins of the RPG game and of the platformer, with the keyboard   *)
(* events their scripts receive.                                           *)
(***************************************************************************)
InitPlugins ==
    /\ project \in {RPG_GAME, PLATFORMER}
    /\ InitCommon
    /\ InitNoScript

NextPlugins ==
    \/ KeyboardInput
    \/ OnSceneLoaded
    \/ OnRegister
    \/ OnStandaloneInit
    \/ OnEnterPlayMode
    \/ OnLeavePlayMode
    \/ PluginUpdate
    \/ PluginOnOsEvent
    \/ OnUnload

SpecPlugins == InitPlugins /\ [][NextPlugins]_vars

(***************************************************************************)
(* The programs of tutorials 1, 2 and 3 as main runs them.  The handler of *)
(* MainEventsCleared runs to its end once entered, which SpecMainFair      *)
(* states.                                                                 *)
(***************************************************************************)
InitMain ==
    /\ project \in {T1, T2, T3}
    /\ InitCommon
    /\ InitNoScript

NextMain ==
    \/ ClockTick
    \/ MainCloseRequested
    \/ MainKeyboardInput
    \/ MainMouseInput
    \/ MainResized
    \/ MainDeviceEvent
    \/ MainRedrawRequested
    \/ MainEventsCleared
    \/ LoopIter
    \/ PlayerUpdate
    \/ WeaponsUpdate
    \/ BotsUpdate
    \/ RecvMessage
    \/ GameUpdateReturn
    \/ EngineUpdate
    \/ LoopExit

SpecMain == InitMain /\ [][NextMain]_vars

SpecMainFair == SpecMain /\ WF_vars(MainLoopStep)

(***************************************************************************)
(* Properties.                                                             *)
(***************************************************************************)

\* C1: a weapon that has fired cannot shoot before the updates since the
\* shot add up to 0.1 s, and two shots of a weapon are never fired with
\* less than 0.1 s of update time between them.
CoolDown ==
    \A h \in WeaponHandles :
        /\ (since_shot[h] >= 0 /\ since_shot[h] < ShotInterval) => ~can_shoot(weapons[h])
        /\ shot_gap[h] = -1 \/ shot_gap[h] >= ShotInterval

\* A second shot has been fired, after a request was dropped in between.
CoolDownWitness ==
    \E h \in WeaponHandles : shot_gap[h] >= ShotInterval /\ since_shot[h] = 0

\* C2: an animation with a key frame whose frame index is in bounds keeps
\* it in bounds through every update; the index goes up by one, and from
\* the last key frame it goes to frame 0.
FrameInBounds ==
    [][\A i \in DOMAIN animations :
          (animations[i].keyframes >= 1 /\ HasCurrentFrame(animations[i])) =>
             /\ HasCurrentFrame(animations'[i])
             /\ animations'[i].current_frame # animations[i].current_frame =>
                   IF animations[i].current_frame = animations[i].keyframes - 1
                   THEN animations'[i].current_frame = 0
                   ELSE animations'[i].current_frame = animations[i].current_frame + 1
      ]_vars

\* An animation of two key frames has gone round to frame 0.
FrameInBoundsWitness ==
    \E i \in DOMAIN animations :
        /\ animations[i].keyframes = MaxKeyframes
        /\ animations[i].current_frame = 0
        /\ animations[i].t > 0
        /\ animations[i].speed = 10
        /\ player.current_animation = i - 1
        /\ i = 2

\* C3: the pitch stays within the limit of 90 degrees, and a motion that
\* asks for more leaves it exactly at the limit.
PitchClamped ==
    HasCamera(project) =>
        /\ controller.pitch >= -PitchLimit(project)
        /\ controller.pitch <= PitchLimit(project)
        /\ wanted.pitch > PitchLimit(project) => controller.pitch = PitchLimit(project)
        /\ wanted.pitch < -PitchLimit(project) => controller.pitch = -PitchLimit(project)

\* A motion asked for more than 90 degrees, from a pitch away from zero.
PitchClampedWitness ==
    /\ project = RPG
    /\ wanted.pitch > PitchLimit(project)
    /\ wanted.pitch < 1000
    /\ controller.pitch = PitchLimit(project)

\* C4, as claimed: the yaw stays in the range the pitch is clamped to.
YawClampedLikePitch ==
    HasCamera(project) =>
        /\ controller.yaw >= -PitchLimit(project)
        /\ controller.yaw <= PitchLimit(project)

\* C4, amended: the yaw is not clamped; it is exactly what the last mouse
\* motion asked for, the previous yaw minus the sensitivity times delta.0.
YawUnclamped == controller.yaw = wanted.yaw

\* The yaw has left the range of the pitch.
YawUnclampedWitness ==
    /\ HasCamera(project)
    /\ controller.yaw > PitchLimit(project)

\* C5: before the first update that sees the target at a non-zero distance
\* below 1.5 the bot does not follow and no update has written the body's
\* rotation or linear velocity; from that update on the bot follows.
PursuitThreshold ==
    /\ ~bot_last.updated => ~bot.follow_target
    /\ ~near_seen =>
          /\ ~bot.follow_target
          /\ ~body.wrote_rotation /\ ~body.wrote_linvel
    /\ near_seen => bot.follow_target

\* An update has run with the target away, at 1.5 exactly.
PursuitThresholdWitness ==
    /\ bot_last.updated
    /\ ~near_seen
    /\ Norm(bot_last.direction) = FollowDistance

\* C6: the plugin of the RPG game holds NONE before the first scene is
\* loaded and afterwards the scene of the last on_scene_loaded, which is in
\* the container, while no scene of an earlier call is.
OneSceneAlive ==
    project = RPG_GAME =>
        IF loaded = <<>>
        THEN plugin_scene = NONE
        ELSE /\ plugin_scene = loaded[Len(loaded)]
             /\ plugin_scene \in scenes
             /\ \A i \in 1..(Len(loaded) - 1) : loaded[i] \notin scenes
             /\ Cardinality(scenes) = 1

\* A third scene has replaced the second.
OneSceneAliveWitness ==
    /\ project = RPG_GAME
    /\ Len(loaded) = MaxScenes
    /\ plugin_scene = MaxScenes

\* C7: the scene of the platformer plugin is the scene given to the last
\* on_enter_play_mode, NONE after on_leave_play_mode, not NONE only between
\* an enter (or standalone init) and the next leave, and unchanged by
\* update, on_os_event, on_unload and on_register.
SceneLifecycle ==
    /\ [](project = PLATFORMER =>
            /\ last_callback.name = "on_enter_play_mode" =>
                  plugin_scene = last_callback.scene
            /\ last_callback.name = "on_leave_play_mode" => plugin_scene = NONE
            /\ plugin_scene # NONE => in_play)
    /\ [][(project = PLATFORMER /\ last_callback'.name \in
               {"update", "on_os_event", "on_unload", "on_register"})
             => plugin_scene' = plugin_scene]_vars

\* Play mode was entered, left and entered again; update ran since.
SceneLifecycleWitness ==
    /\ project = PLATFORMER
    /\ plugin_scene = 2
    /\ 1 \in scenes
    /\ last_callback.name = "update"
    /\ in_play

\* C8: every movement flag tells whether the last event of its key was a
\* press: W, S, A, D for forward, backward, left, right (A, D and Space for
\* left, right and jump in the platformer); no other event changes a flag.
FlagsTrackKeys ==
    IF project = PLATFORMER
    THEN /\ controller.move_left = ("A" \in pressed_last)
         /\ controller.move_right = ("D" \in pressed_last)
         /\ controller.jump = ("Space" \in pressed_last)
         /\ ~controller.move_forward /\ ~controller.move_backward
    ELSE /\ controller.move_forward = ("W" \in pressed_last)
         /\ controller.move_backward = ("S" \in pressed_last)
         /\ controller.move_left = ("A" \in pressed_last)
         /\ controller.move_right = ("D" \in pressed_last)
         /\ ~controller.jump

\* Keys were pressed and released, mouse moved, an unbound key is down.
FlagsTrackKeysWitness ==
    /\ project = T2
    /\ controller.move_right /\ ~controller.move_left
    /\ "W" \in pressed_last /\ "S" \notin pressed_last
    /\ controller.pitch # 0 /\ controller.shoot

\* C9: every Weapon::update brings the recoil offset no further from its
\* target and resets the target once the offset is within 0.001 of it; when
\* the shooting stops, the target ends at zero for good and the offset ends
\* within 0.001 of zero.
RecoilFollows ==
    [][pc = "weapons" =>
         \A h \in WeaponHandles :
            /\ Abs(weapons'[h].recoil_offset - weapons[h].recoil_target_offset)
                  <= Abs(weapons[h].recoil_offset - weapons[h].recoil_target_offset)
            /\ Abs(weapons'[h].recoil_offset - weapons[h].recoil_target_offset) < RecoilEpsilon
                  => weapons'[h].recoil_target_offset = 0]_vars

RecoilReturns ==
    /\ RecoilFollows
    /\ <>[](~controller.shoot) =>
          <>[](\A h \in WeaponHandles :
                  /\ weapons[h].recoil_target_offset = 0
                  /\ Abs(weapons[h].recoil_offset) < RecoilEpsilon)

\* A weapon has fired and is back at its default position.
RecoilReturnsWitness ==
    \E h \in WeaponHandles :
        /\ since_shot[h] > 0
        /\ weapons[h].recoil_target_offset = 0
        /\ weapons[h].recoil_offset # 0
        /\ Abs(weapons[h].recoil_offset) < RecoilEpsilon

\* C10: after an update of an animation machine every rule parameter has
\* the value the input of that update gives it, so exactly one of
\* IdleToWalk and WalkToIdle is true.
ParameterWiring ==
    machine_input.updated =>
        /\ machine[IDLE_TO_WALK] = Rule(machine_input.walk)
        /\ machine[WALK_TO_IDLE] = Rule(~machine_input.walk)
        /\ (machine[IDLE_TO_WALK] = Rule(TRUE))
               # (machine[WALK_TO_IDLE] = Rule(TRUE))
        /\ project = T3 =>
              /\ machine[WALK_TO_ATTACK] = Rule(machine_input.attack)
              /\ machine[IDLE_TO_ATTACK] = Rule(machine_input.attack)
              /\ machine[ATTACK_TO_IDLE] = Rule(~machine_input.attack)
              /\ machine[ATTACK_TO_WALK] = Rule(~machine_input.attack)

\* The RPG machine was updated with opposite keys held, so not moving.
ParameterWiringWitness ==
    /\ project = RPG
    /\ machine_input.updated
    /\ ~machine_input.walk
    /\ controller.move_left /\ controller.move_right
    /\ machine[WALK_TO_IDLE] = Rule(TRUE)

\* C11: the game runs at a fixed step.  elapsed_time is TIMESTEP times the
\* number of game updates; every game.update is followed at once by one
\* engine.update; when the MainEventsCleared handler is done the updates
\* performed are one per whole TIMESTEP of the clock at entry, so that the
\* remainder is at least 0 and less than TIMESTEP; game.update runs in the
\* MainEventsCleared handler only, never for RedrawRequested; and the loop
\* of the handler terminates.
FixedTimeStep ==
    /\ [](/\ elapsed_time = TIMESTEP * game_updates
          /\ engine_updates = IF main_pc = "game" THEN game_updates - 1 ELSE game_updates
          /\ pc # "idle" => main_pc = "game"
          /\ main_pc # "wait" => last_event.event.kind = "MainEventsCleared"
          /\ (main_pc = "wait" /\ last_event.event.kind = "MainEventsCleared") =>
                /\ last_event.clock - elapsed_time >= 0
                /\ last_event.clock - elapsed_time < TIMESTEP
                /\ game_updates = last_event.clock \div TIMESTEP)
    /\ [][game_updates' # game_updates =>
             /\ main_pc = "loop"
             /\ last_event.event.kind = "MainEventsCleared"
             /\ game_updates' = game_updates + 1]_vars
    /\ (main_pc # "wait") ~> (main_pc = "wait")

\* A handler has run the game twice in a row, and after three updates in
\* all a remainder of 3 is left.
FixedTimeStepWitness ==
    /\ main_pc = "wait"
    /\ last_event.event.kind = "MainEventsCleared"
    /\ game_updates = 3
    /\ engine_updates = 3
    /\ last_event.clock - elapsed_time = 3

\* C12: the handler leaves ControlFlow::Exit for CloseRequested and for a
\* keyboard event of the Escape key, pressed or released, and for no other
\* event; every event has gone to process_input_event first.
ExitOnEscapeOrClose ==
    LET e == last_event.event
        exits == \/ e.kind = "CloseRequested"
                 \/ e.kind = "KeyboardInput" /\ e.key = "Escape"
    IN /\ exits => control_flow = "Exit"
       /\ control_flow = "Exit" => exits
       /\ e.kind # "none" => last_event.forwarded
       /\ (e.kind = "KeyboardInput" /\ e.key = "W") =>
             controller.move_forward = (e.state = "Pressed")

\* The release of Escape has ended a game with W held.
ExitOnEscapeOrCloseWitness ==
    /\ control_flow = "Exit"
    /\ last_event.event.kind = "KeyboardInput"
    /\ last_event.event.key = "Escape"
    /\ last_event.event.state = "Released"
    /\ controller.move_forward
    /\ game_updates > 0

\* C13: every Animation::update, and with it every Player::on_update,
\* finishes normally, whatever the number of key frames (zero included).
UpdateCompletes == ~panicked

\* Player::on_update has panicked in the update of the default animation:
\* no key frame, speed 10, t one update short of 1.
DefaultAnimationPanics ==
    /\ panicked
    /\ player.current_animation + 1 \in DOMAIN animations
    /\ animations[player.current_animation + 1] = [DefaultAnimation EXCEPT !.t = 50]

\* C14: Player::update sends at most one message per Game::update, and one
\* only with the shoot flag set; the messages in the queue are those sent in
\* the running update and not yet received, so that the queue is empty and
\* every message sent has been received whenever Game::update has returned;
\* and the try_recv loop terminates.
QueueDrained ==
    /\ [](/\ sent <= 1
          /\ Len(queue) = sent - received
          /\ pc \in {"weapons", "bots", "recv"} => (sent = 1) = controller.shoot
          /\ pc = "idle" => queue = <<>> /\ received = sent)
    /\ (pc = "recv") ~> (pc = "idle")

\* An update has returned after receiving the message it sent, which found
\* the weapon cooling down.
QueueDrainedWitness ==
    /\ pc = "idle"
    /\ sent = 1
    /\ received = 1
    /\ queue = <<>>
    /\ last_shot.called
    /\ ~last_shot.fired

\* C15: the shoot flag is whether the last left button event was Pressed.
\* An update with the flag set never returns with the cool-down of the
\* player's weapon expired: the timers are decremented before the message
\* is handled, so the weapon fires in the first update whose dt completes
\* the 0.1 s.  With the button held for good the weapon fires again and
\* again; an update with the flag clear sends no message and fires no shot.
AutomaticFire ==
    /\ [](/\ controller.shoot = left_last
          /\ (pc = "idle" /\ sent = 1) =>
                /\ since_shot[player_weapon] >= 0
                /\ since_shot[player_weapon] < ShotInterval
                /\ ~can_shoot(weapons[player_weapon])
          /\ (pc \in {"weapons", "bots", "recv"} /\ ~controller.shoot) =>
                /\ sent = 0
                /\ queue = <<>>
                /\ ~last_shot.called)
    /\ <>[](controller.shoot) => []<>(last_shot.fired)

\* With the button held the weapon has fired a second time, in the update
\* that completed the 0.1 s.
AutomaticFireWitness ==
    /\ pc = "idle"
    /\ left_last
    /\ last_shot.fired
    /\ shot_gap[player_weapon] = ShotInterval

\* C16: a shot that is fired creates exactly one trail.  If the ray meets a
\* collider other than the player's, the closest such intersection is the
\* one acted on: the force and the impact effect are applied there and the
\* trail is as long as its distance from the ray origin.  If it meets none,
\* no force and no impact effect are produced and the trail has the length
\* of the ray, 1000.
HitSelection ==
    last_shot.fired =>
        LET hits == last_shot.intersections
            others == {i \in 1..Len(hits) : hits[i].collider # PlayerCollider}
        IN /\ last_shot.ray_cast
           /\ last_shot.trails = 1
           /\ IF others = {}
              THEN /\ last_shot.target = 0
                   /\ last_shot.force_at = -1
                   /\ last_shot.effect_at = -1
                   /\ last_shot.effects = 0
                   /\ last_shot.trail_length = RayLength
              ELSE /\ last_shot.target \in others
                   /\ \A j \in others :
                         /\ last_shot.target <= j
                         /\ hits[last_shot.target].toi <= hits[j].toi
                   /\ last_shot.force_at = hits[last_shot.target].toi
                   /\ last_shot.effect_at = hits[last_shot.target].toi
                   /\ last_shot.effects = 1
                   /\ last_shot.trail_length = hits[last_shot.target].toi

\* A shot whose ray met the player's capsule first has hit the crate behind
\* it, not the wall further away.
HitSelectionWitness ==
    /\ last_shot.fired
    /\ Len(last_shot.intersections) = 3
    /\ last_shot.intersections[1].collider = PlayerCollider
    /\ last_shot.target = 2
    /\ last_shot.trail_length = 12

\* C17: a call of shoot_weapon that finds can_shoot() false leaves the
\* weapons as they are, casts no ray, applies no force and adds neither an
\* impact effect nor a trail; the message is taken off the queue, so the
\* request is not kept for a later frame.
DroppedDuringCoolDown ==
    /\ []((last_shot.called /\ ~last_shot.fired) =>
             /\ ~last_shot.ray_cast
             /\ last_shot.force_at = -1
             /\ last_shot.effects = 0
             /\ last_shot.trails = 0)
    /\ [][(/\ pc = "recv"
           /\ received' # received
           /\ ~can_shoot(weapons[Head(queue).weapon])) =>
             /\ weapons' = weapons
             /\ last_shot'.called
             /\ ~last_shot'.fired
             /\ queue' = Tail(queue)]_vars

\* The request of a frame has been dropped: the weapon is still cooling
\* down and the queue is empty.
DroppedDuringCoolDownWitness ==
    /\ pc = "recv"
    /\ queue = <<>>
    /\ last_shot.called
    /\ ~last_shot.fired
    /\ weapons[player_weapon].shot_timer > 0
    /\ weapons[player_weapon].recoil_target_offset = RecoilKick

\* C18: the player's weapon handle is a handle of the weapon pool, it never
\* changes and the pool never loses a weapon; so every message carries a
\* handle of the pool and the index self.weapons[weapon] never panics.
WeaponHandleValid ==
    /\ [](/\ player_weapon \in DOMAIN weapons
          /\ \A i \in 1..Len(queue) : queue[i].weapon \in DOMAIN weapons
          /\ ~panicked)
    /\ [][/\ player_weapon' = player_weapon
          /\ DOMAIN weapons' = DOMAIN weapons]_vars

\* shoot_weapon has indexed the pool for a second shot of the player's weapon.
WeaponHandleValidWitness ==
    /\ received = 1
    /\ last_shot.fired
    /\ player_weapon = PlayerWeapon
    /\ shot_gap[player_weapon] > 0
    /\ weapons[player_weapon].shot_timer = ShotInterval

\* C19: a Bot::update writes the body's linear velocity exactly when the
\* bot follows the target and the distance is above 0.6, and keeps the
\* vertical component when it does; any other update leaves the linear
\* velocity as it was.
MovesOnlyIfFar ==
    [][BotUpdate =>
          LET distance == Norm(bot_last'.direction)
              moves == bot'.follow_target /\ distance > AttackDistance
          IN /\ body'.wrote_linvel = moves
             /\ moves => body'.linvel.y = body.linvel.y
             /\ ~moves => body'.linvel = body.linvel]_vars

\* A bot that was running has come to the attack distance, 0.6 exactly: the
\* update turned it and left its velocity, which is not zero.
MovesOnlyIfFarWitness ==
    /\ bot_last.updated
    /\ bot.follow_target
    /\ Norm(bot_last.direction) = AttackDistance
    /\ body.wrote_rotation
    /\ ~body.wrote_linvel
    /\ body.linvel = bot_last.linvel_before
    /\ body.linvel.z # 0

=============================================================================
